---- MODULE Spec2Model ----
(***************************************************************************)
(* Raspadinha Premiada API (src/main.py): the scratch-card lottery backend. *)
(* The state is the three in-memory dictionaries (tickets_db, payments_db,  *)
(* mp_simulator.transactions) and the requests in flight.  Every handler    *)
(* is an `async def` with no await in its body, so asyncio's event loop     *)
(* runs a handler to its end before it starts another one: the handlers are *)
(* modelled statement group by statement group, and the event loop decides  *)
(* who may step.                                                            *)
(*                                                                          *)
(* Units: money in whole currency units; probabilities and random draws in   *)
(* ten-thousandths (0.019 is 190, random.random() is 0..9999); timestamps    *)
(* are readings of a logical clock that ticks once per accepted request.     *)
(* gp_call records the calls of PrizeSystem.generate_prize: how many were    *)
(* made and, of the latest, its argument, the value random.random() gave it  *)
(* and what it returned.                                                     *)
(***************************************************************************)
EXTENDS Integers, Sequences, FiniteSets, TLC

VARIABLES tickets_db, payments_db, transactions, request, pc, local, resp,
          loop, clock, reveals, gp_call

vars == <<tickets_db, payments_db, transactions, request, pc, local, resp,
          loop, clock, reveals, gp_call>>

(* ------------------------------ bounds --------------------------------- *)
MaxReqs == 2
MaxClock == 3

Reqs == 1..MaxReqs
\* the values uuid4().hex[:8] and uuid4().hex[:10] are drawn from
TicketIds == {"ticket_a", "ticket_b"}
PaymentIds == {"mp_payment_a", "mp_payment_b"}
\* request inputs
Amounts == {5, 7}
PaymentMethods == {"pix"}
\* the failure scenarios random.choice is made to draw (a rejected, the pending)
ScenarioDraws == {1, 3}
\* values of random.random() that generate_prize is run on here
RandomValues == {5000, 9995}

(* --------------------------- absent values ----------------------------- *)
None == "None"
NoTime == 0
Idle == 0

(* ------------------------------ PrizeSystem ---------------------------- *)
\* (mutation: 0.019 of the price-5 table typed 0.018)
prize_pools_typo ==
    [p \in {5, 10, 25, 50} |->
       CASE p = 5 ->
              << [amount |-> 0,   probability |-> 7500, message |-> "Tente novamente!"],
                 [amount |-> 5,   probability |-> 1500, message |-> "Recuperou o valor!"],
                 [amount |-> 15,  probability |-> 800,  message |-> "Triplicou!"],
                 [amount |-> 50,  probability |-> 180,  message |-> "Grande premio!"],
                 [amount |-> 250, probability |-> 10,   message |-> "JACKPOT!"] >>
         [] p = 10 ->
              << [amount |-> 0,   probability |-> 7000, message |-> "Tente novamente!"],
                 [amount |-> 10,  probability |-> 1800, message |-> "Recuperou o valor!"],
                 [amount |-> 30,  probability |-> 1000, message |-> "Triplicou!"],
                 [amount |-> 100, probability |-> 190,  message |-> "Grande premio!"],
                 [amount |-> 500, probability |-> 10,   message |-> "JACKPOT!"] >>
         [] p = 25 ->
              << [amount |-> 0,    probability |-> 6500, message |-> "Tente novamente!"],
                 [amount |-> 25,   probability |-> 2000, message |-> "Recuperou o valor!"],
                 [amount |-> 75,   probability |-> 1200, message |-> "Triplicou!"],
                 [amount |-> 250,  probability |-> 290,  message |-> "Grande premio!"],
                 [amount |-> 1000, probability |-> 10,   message |-> "JACKPOT!"] >>
         [] p = 50 ->
              << [amount |-> 0,    probability |-> 6000, message |-> "Tente novamente!"],
                 [amount |-> 50,   probability |-> 2200, message |-> "Recuperou o valor!"],
                 [amount |-> 150,  probability |-> 1500, message |-> "Triplicou!"],
                 [amount |-> 500,  probability |-> 290,  message |-> "Grande premio!"],
                 [amount |-> 2500, probability |-> 10,   message |-> "JACKPOT!"] >>]

prize_pools ==
    [p \in {5, 10, 25, 50} |->
       CASE p = 5 ->
              << [amount |-> 0,   probability |-> 7500, message |-> "Tente novamente!"],
                 [amount |-> 5,   probability |-> 1500, message |-> "Recuperou o valor!"],
                 [amount |-> 15,  probability |-> 800,  message |-> "Triplicou!"],
                 [amount |-> 50,  probability |-> 190,  message |-> "Grande premio!"],
                 [amount |-> 250, probability |-> 10,   message |-> "JACKPOT!"] >>
         [] p = 10 ->
              << [amount |-> 0,   probability |-> 7000, message |-> "Tente novamente!"],
                 [amount |-> 10,  probability |-> 1800, message |-> "Recuperou o valor!"],
                 [amount |-> 30,  probability |-> 1000, message |-> "Triplicou!"],
                 [amount |-> 100, probability |-> 190,  message |-> "Grande premio!"],
                 [amount |-> 500, probability |-> 10,   message |-> "JACKPOT!"] >>
         [] p = 25 ->
              << [amount |-> 0,    probability |-> 6500, message |-> "Tente novamente!"],
                 [amount |-> 25,   probability |-> 2000, message |-> "Recuperou o valor!"],
                 [amount |-> 75,   probability |-> 1200, message |-> "Triplicou!"],
                 [amount |-> 250,  probability |-> 290,  message |-> "Grande premio!"],
                 [amount |-> 1000, probability |-> 10,   message |-> "JACKPOT!"] >>
         [] p = 50 ->
              << [amount |-> 0,    probability |-> 6000, message |-> "Tente novamente!"],
                 [amount |-> 50,   probability |-> 2200, message |-> "Recuperou o valor!"],
                 [amount |-> 150,  probability |-> 1500, message |-> "Triplicou!"],
                 [amount |-> 500,  probability |-> 290,  message |-> "Grande premio!"],
                 [amount |-> 2500, probability |-> 10,   message |-> "JACKPOT!"] >>]

\* (mutation: `amount > 1000` for `amount >= 1000`)
_get_prize_tier_strict(amount) ==
    IF amount > 1000 THEN "jackpot"
    ELSE IF amount >= 100 THEN "major"
    ELSE IF amount >= 10 THEN "minor"
    ELSE IF amount > 0 THEN "consolation"
    ELSE "none"

_get_prize_tier(amount) ==
    IF amount >= 1000 THEN "jackpot"
    ELSE IF amount >= 100 THEN "major"
    ELSE IF amount >= 10 THEN "minor"
    ELSE IF amount > 0 THEN "consolation"
    ELSE "none"

\* self.prize_pools.get(ticket_price, self.prize_pools[5])
PoolFor(ticket_price) ==
    IF ticket_price \in DOMAIN prize_pools THEN prize_pools[ticket_price]
    ELSE prize_pools[5]

\* (mutation: `random_value < cumulative_probability`)
RECURSIVE SelectPrizeStrict(_, _, _, _)
SelectPrizeStrict(prizes, i, cumulative_probability, random_value) ==
    IF i > Len(prizes) THEN 0
    ELSE LET c == cumulative_probability + prizes[i].probability
         IN  IF random_value < c THEN i
             ELSE SelectPrizeStrict(prizes, i + 1, c, random_value)

\* the for loop of generate_prize: the index of the entry returned, 0 when the
\* loop ends without returning
RECURSIVE SelectPrize(_, _, _, _)
SelectPrize(prizes, i, cumulative_probability, random_value) ==
    IF i > Len(prizes) THEN 0
    ELSE LET c == cumulative_probability + prizes[i].probability
         IN  IF random_value <= c THEN i
             ELSE SelectPrize(prizes, i + 1, c, random_value)

generate_prize(ticket_price, random_value, now) ==
    LET prizes == PoolFor(ticket_price)
        i == SelectPrize(prizes, 1, 0, random_value)
    IN  IF i > 0
        THEN [amount |-> prizes[i].amount,
              message |-> prizes[i].message,
              is_winner |-> prizes[i].amount > 0,
              prize_tier |-> _get_prize_tier(prizes[i].amount),
              timestamp |-> now]
        ELSE [amount |-> 0,
              message |-> "Tente novamente!",
              is_winner |-> FALSE,
              prize_tier |-> "none",
              timestamp |-> now]

NoPrize == [amount |-> 0, message |-> None, is_winner |-> FALSE,
            prize_tier |-> None, timestamp |-> NoTime]

\* a call prize_system.generate_prize(ticket_price) in which random.random()
\* gives random_value, after the calls recorded in calls
PrizeCall(calls, ticket_price, random_value, now) ==
    [n |-> calls.n + 1,
     ticket_price |-> ticket_price,
     random_value |-> random_value,
     result |-> generate_prize(ticket_price, random_value, now)]

NoCall == [n |-> 0, ticket_price |-> 0, random_value |-> 0, result |-> NoPrize]

(* -------------------------- MercadoPagoSimulator ----------------------- *)
failure_scenarios ==
    << [status |-> "rejected", detail |-> "cc_rejected_insufficient_amount",
        message |-> "Saldo insuficiente"],
       [status |-> "rejected", detail |-> "cc_rejected_bad_filled_security_code",
        message |-> "Codigo de seguranca invalido"],
       [status |-> "pending", detail |-> "pending_waiting_payment",
        message |-> "Aguardando pagamento"],
       [status |-> "rejected", detail |-> "cc_rejected_call_for_authorize",
        message |-> "Pagamento nao autorizado"] >>

\* the outcomes of `random.random() < success_rate` and of random.choice drawing
\* one of ScenarioDraws
PaymentOutcomes ==
    { [status |-> "approved", detail |-> "accredited",
       message |-> "Pagamento aprovado com sucesso"] }
    \cup { failure_scenarios[i] : i \in ScenarioDraws }

\* the record stored in self.transactions
Transaction(payment_id, outcome, payment_data, now) ==
    [id |-> payment_id,
     status |-> outcome.status,
     status_detail |-> outcome.detail,
     transaction_amount |-> payment_data.amount,
     payment_method_id |-> payment_data.payment_method,
     date_created |-> now,
     date_approved |-> IF outcome.status = "approved" THEN now ELSE NoTime]

\* what MercadoPagoSimulator.process_payment returns
MpResult(payment_id, outcome, payment_data) ==
    [id |-> payment_id,
     status |-> outcome.status,
     status_detail |-> outcome.detail,
     message |-> outcome.message,
     transaction_amount |-> payment_data.amount]

NoResult == [id |-> None, status |-> None, status_detail |-> None,
             message |-> None, transaction_amount |-> 0]

(* ------------------------------ requests ------------------------------- *)
NoRequest == [op |-> None, amount |-> 0, payment_method |-> None, ticket_id |-> None]
NoLocal == [mp_result |-> NoResult, prize |-> NoPrize]
NoResp == [status_code |-> 0]

\* the first statement group of each handler
Entry(op) ==
    CASE op = "process_payment" -> "pp_validate"
      [] op = "scratch_ticket" -> "sc_lookup"
      [] op = "get_ticket" -> "gt_lookup"
      [] op = "get_statistics" -> "st_fold"

Requests ==
    { [op |-> "process_payment", amount |-> a, payment_method |-> m, ticket_id |-> None] :
          a \in Amounts, m \in PaymentMethods }
    \cup { [op |-> o, amount |-> 0, payment_method |-> None, ticket_id |-> t] :
          o \in {"scratch_ticket", "get_ticket"}, t \in TicketIds }
    \cup { [op |-> "get_statistics", amount |-> 0, payment_method |-> None,
            ticket_id |-> None] }

InFlight == { r \in Reqs : pc[r] # "idle" }

(* ------------------------------ event loop ----------------------------- *)
\* A handler coroutine has no await: once the loop has started it, no other
\* handler runs until it has returned or raised.
\* (mutation: handlers declared `def`, which FastAPI runs in threads)
CanStepThreaded(r) == TRUE

CanStep(r) == loop \in {Idle, r}

Init ==
    /\ tickets_db = << >>
    /\ payments_db = << >>
    /\ transactions = << >>
    /\ request = [r \in Reqs |-> NoRequest]
    /\ pc = [r \in Reqs |-> "idle"]
    /\ local = [r \in Reqs |-> NoLocal]
    /\ resp = [r \in Reqs |-> NoResp]
    /\ loop = Idle
    /\ clock = 0
    /\ reveals = [t \in TicketIds |-> 0]
    /\ gp_call = NoCall

\* dictionary assignment d[k] = v
Put(d, k, v) == [x \in DOMAIN d \cup {k} |-> IF x = k THEN v ELSE d[x]]

\* a request reaches the server and its handler is scheduled; the server reads
\* requests and writes responses on the event loop too
Arrive(r) ==
    /\ pc[r] = "idle"
    /\ CanStep(r)
    /\ \A q \in Reqs : q < r => pc[q] # "idle"
    /\ clock < MaxClock
    /\ \E q \in Requests :
         /\ request' = [request EXCEPT ![r] = q]
         /\ pc' = [pc EXCEPT ![r] = Entry(q.op)]
    /\ clock' = clock + 1
    /\ UNCHANGED <<tickets_db, payments_db, transactions, local, resp, loop, reveals, gp_call>>

\* the response leaves the server: the request's task ends and the loop is free
Deliver(r) ==
    /\ pc[r] = "done"
    /\ CanStep(r)
    /\ pc' = [pc EXCEPT ![r] = "idle"]
    /\ request' = [request EXCEPT ![r] = NoRequest]
    /\ local' = [local EXCEPT ![r] = NoLocal]
    /\ resp' = [resp EXCEPT ![r] = NoResp]
    /\ loop' = Idle
    /\ UNCHANGED <<tickets_db, payments_db, transactions, clock, reveals, gp_call>>

\* a handler goes on to its next statement group / returns or raises
Goto(r, label) ==
    /\ pc' = [pc EXCEPT ![r] = label]
    /\ loop' = r
    /\ UNCHANGED resp

Finish(r, response) ==
    /\ pc' = [pc EXCEPT ![r] = "done"]
    /\ resp' = [resp EXCEPT ![r] = response]
    /\ loop' = r

(* --------------------------- process_payment --------------------------- *)
valid_prices == {5, 10, 25, 50}

\* `except Exception as e: raise HTTPException(status_code=500, ...)`: the status
\* the client gets for an exception raised inside the try block with `raised`
\* as its own status (HTTPException is an Exception, so it is caught too)
ExceptException(raised) == 500

\* (mutation: every payment that is not rejected gets a ticket)
IsApprovedOrPending(mp_result) == mp_result.status # "rejected"

\* `if mp_result["status"] == "approved"`
IsApproved(mp_result) == mp_result.status = "approved"

\* the dictionary stored in payments_db
PaymentRecord(mp_result, amount, now) ==
    [payment_id |-> mp_result.id,
     amount |-> amount,
     status |-> mp_result.status,
     created_at |-> now]

\* the dictionary stored in tickets_db; it has no "scratched_at" key yet
NewTicket(ticket_id, payment_id, price, prize, now) ==
    [id |-> ticket_id,
     payment_id |-> payment_id,
     price |-> price,
     prize |-> prize,
     created_at |-> now,
     scratched |-> FALSE,
     scratched_at |-> NoTime]

\* (mutation: the price is not validated)
pp_validate_unchecked(r) ==
    /\ pc[r] = "pp_validate"
    /\ CanStep(r)
    /\ Goto(r, "pp_mp")
    /\ UNCHANGED <<tickets_db, payments_db, transactions, request, local, clock, reveals, gp_call>>

\* lines 209-212: validate the ticket price
pp_validate(r) ==
    /\ pc[r] = "pp_validate"
    /\ CanStep(r)
    /\ IF request[r].amount \notin valid_prices
       THEN Finish(r, [status_code |-> ExceptException(400),
                       detail |-> "Erro interno"])
       ELSE Goto(r, "pp_mp")
    /\ UNCHANGED <<tickets_db, payments_db, transactions, request, local, clock, reveals, gp_call>>

\* lines 215-222: mp_simulator.process_payment(mp_payment_data)
pp_mp(r) ==
    /\ pc[r] = "pp_mp"
    /\ CanStep(r)
    /\ \E payment_id \in PaymentIds, outcome \in PaymentOutcomes :
         LET payment_data == [amount |-> request[r].amount,
                              payment_method |-> request[r].payment_method]
         IN  /\ transactions' = Put(transactions, payment_id,
                                    Transaction(payment_id, outcome, payment_data, clock))
             /\ local' = [local EXCEPT
                            ![r].mp_result = MpResult(payment_id, outcome, payment_data)]
    /\ Goto(r, "pp_save")
    /\ UNCHANGED <<tickets_db, payments_db, request, clock, reveals, gp_call>>

\* lines 224-232 and 257-265: save the payment; answer when it is not approved
pp_save(r) ==
    /\ pc[r] = "pp_save"
    /\ CanStep(r)
    /\ LET mp_result == local[r].mp_result
       IN  /\ payments_db' = Put(payments_db, mp_result.id,
                                 PaymentRecord(mp_result, request[r].amount, clock))
           /\ IF IsApproved(mp_result)
              THEN Goto(r, "pp_ticket")
              ELSE Finish(r, [status_code |-> 200,
                              success |-> FALSE,
                              payment_id |-> mp_result.id,
                              status |-> mp_result.status,
                              message |-> mp_result.message,
                              ticket_id |-> None])
    /\ UNCHANGED <<tickets_db, transactions, request, local, clock, reveals, gp_call>>

\* lines 233-256: draw the ticket id and the prize, store the ticket, answer
pp_ticket(r) ==
    /\ pc[r] = "pp_ticket"
    /\ CanStep(r)
    /\ \E ticket_id \in TicketIds, random_value \in RandomValues :
         LET mp_result == local[r].mp_result
             call == PrizeCall(gp_call, request[r].amount, random_value, clock)
             prize == call.result
         IN  /\ gp_call' = call
             /\ tickets_db' = Put(tickets_db, ticket_id,
                                  NewTicket(ticket_id, mp_result.id, request[r].amount,
                                            prize, clock))
             /\ reveals' = [reveals EXCEPT ![ticket_id] = 0]
             /\ Finish(r, [status_code |-> 200,
                           success |-> TRUE,
                           payment_id |-> mp_result.id,
                           status |-> "approved",
                           message |-> "Pagamento aprovado! Bilhete gerado com sucesso.",
                           ticket_id |-> ticket_id])
    /\ UNCHANGED <<payments_db, transactions, request, local, clock>>

(* ----------------------------- scratch_ticket -------------------------- *)
\* (mutation: the already-scratched test is lost)
AlreadyScratchedUnchecked(ticket) == FALSE

\* `if ticket["scratched"]`
AlreadyScratched(ticket) == ticket.scratched

\* tickets_db[ticket_id]["scratched"] = True
Marked(ticket) == [ticket EXCEPT !.scratched = TRUE]

\* tickets_db[ticket_id]["scratched_at"] = datetime.now().isoformat()
Stamped(ticket, now) == [ticket EXCEPT !.scratched_at = now]

\* (mutation: an unknown id gets an empty ticket, tickets_db.setdefault(ticket_id,
\* ...) instead of tickets_db.get(ticket_id), and the call goes on)
sc_lookup_setdefault(r) ==
    /\ pc[r] = "sc_lookup"
    /\ CanStep(r)
    /\ LET ticket_id == request[r].ticket_id
       IN  IF ticket_id \notin DOMAIN tickets_db
           THEN /\ tickets_db' = Put(tickets_db, ticket_id,
                                     NewTicket(ticket_id, None, 0, NoPrize, NoTime))
                /\ Goto(r, "sc_mark")
                /\ UNCHANGED local
           ELSE IF AlreadyScratched(tickets_db[ticket_id])
           THEN /\ Finish(r, [status_code |-> 400, detail |-> "Bilhete ja foi raspado"])
                /\ UNCHANGED <<local, tickets_db>>
           ELSE /\ Goto(r, "sc_mark")
                /\ local' = [local EXCEPT ![r].prize = tickets_db[ticket_id].prize]
                /\ UNCHANGED tickets_db
    /\ UNCHANGED <<payments_db, transactions, request, clock, reveals, gp_call>>

\* lines 283-288: look the ticket up; 404 when unknown, 400 when scratched.
\* `ticket` is a reference to the stored dictionary, whose prize no statement
\* assigns, so the handler's view of the prize is the one read here.
sc_lookup(r) ==
    /\ pc[r] = "sc_lookup"
    /\ CanStep(r)
    /\ LET ticket_id == request[r].ticket_id
       IN  IF ticket_id \notin DOMAIN tickets_db
           THEN /\ Finish(r, [status_code |-> 404, detail |-> "Bilhete nao encontrado"])
                /\ UNCHANGED local
           ELSE IF AlreadyScratched(tickets_db[ticket_id])
           THEN /\ Finish(r, [status_code |-> 400, detail |-> "Bilhete ja foi raspado"])
                /\ UNCHANGED local
           ELSE /\ Goto(r, "sc_mark")
                /\ local' = [local EXCEPT ![r].prize = tickets_db[ticket_id].prize]
    /\ UNCHANGED <<tickets_db, payments_db, transactions, request, clock, reveals, gp_call>>

\* line 291
sc_mark(r) ==
    /\ pc[r] = "sc_mark"
    /\ CanStep(r)
    /\ tickets_db' = [tickets_db EXCEPT
                        ![request[r].ticket_id] = Marked(tickets_db[request[r].ticket_id])]
    /\ Goto(r, "sc_stamp")
    /\ UNCHANGED <<payments_db, transactions, request, local, clock, reveals, gp_call>>

\* lines 292-300: stamp scratched_at and return the prize
sc_stamp(r) ==
    /\ pc[r] = "sc_stamp"
    /\ CanStep(r)
    /\ LET ticket_id == request[r].ticket_id
       IN  /\ tickets_db' = [tickets_db EXCEPT
                               ![ticket_id] = Stamped(tickets_db[ticket_id], clock)]
           /\ reveals' = [reveals EXCEPT ![ticket_id] = reveals[ticket_id] + 1]
           /\ Finish(r, [status_code |-> 200,
                         ticket_id |-> ticket_id,
                         prize |-> local[r].prize,
                         message |-> "Bilhete raspado com sucesso!"])
    /\ UNCHANGED <<payments_db, transactions, request, local, clock, gp_call>>

(* ------------------------------- get_ticket ---------------------------- *)
gt_lookup(r) ==
    /\ pc[r] = "gt_lookup"
    /\ CanStep(r)
    /\ LET ticket_id == request[r].ticket_id
       IN  IF ticket_id \notin DOMAIN tickets_db
           THEN Finish(r, [status_code |-> 404, detail |-> "Bilhete nao encontrado"])
           ELSE Finish(r, [status_code |-> 200, ticket |-> tickets_db[ticket_id]])
    /\ UNCHANGED <<tickets_db, payments_db, transactions, request, local, clock, reveals, gp_call>>

(* ------------------------------ get_statistics ------------------------- *)
\* sum(f[t] for t in S)
RECURSIVE SumOver(_, _)
SumOver(f, S) ==
    IF S = {} THEN 0
    ELSE LET x == CHOOSE y \in S : TRUE
         IN  f[x] + SumOver(f, S \ {x})

\* (mutation: the `if b > 0 else 0` guard is lost)
RatioUnguarded(a, b) == [num |-> a, den |-> b]

\* `a / b if b > 0 else 0`, the quotient kept as the pair it is the quotient of
RatioOrZero(a, b) ==
    IF b > 0 THEN [num |-> a, den |-> b] ELSE [num |-> 0, den |-> 1]

\* (mutation: total_prizes sums the prizes of all tickets, the `if t["scratched"]`
\* filter lost)
StatisticsUnfiltered(db) ==
    LET ids == DOMAIN db
        scratched_ids == { t \in ids : db[t].scratched }
        total_tickets == Cardinality(ids)
        total_payments == SumOver([t \in ids |-> db[t].price], ids)
        total_prizes == SumOver([t \in ids |-> db[t].prize.amount], ids)
        winners == { t \in scratched_ids : db[t].prize.amount > 0 }
    IN  [status_code |-> 200,
         total_tickets |-> total_tickets,
         total_payments |-> total_payments,
         total_prizes |-> total_prizes,
         winners_count |-> Cardinality(winners),
         win_rate |-> RatioOrZero(Cardinality(winners), total_tickets),
         house_edge |-> RatioOrZero(total_payments - total_prizes, total_payments)]

Statistics(db) ==
    LET ids == DOMAIN db
        scratched_ids == { t \in ids : db[t].scratched }
        total_tickets == Cardinality(ids)
        total_payments == SumOver([t \in ids |-> db[t].price], ids)
        total_prizes == SumOver([t \in ids |-> db[t].prize.amount], scratched_ids)
        winners == { t \in scratched_ids : db[t].prize.amount > 0 }
    IN  [status_code |-> 200,
         total_tickets |-> total_tickets,
         total_payments |-> total_payments,
         total_prizes |-> total_prizes,
         winners_count |-> Cardinality(winners),
         win_rate |-> RatioOrZero(Cardinality(winners), total_tickets),
         house_edge |-> RatioOrZero(total_payments - total_prizes, total_payments)]

st_fold(r) ==
    /\ pc[r] = "st_fold"
    /\ CanStep(r)
    /\ Finish(r, Statistics(tickets_db))
    /\ UNCHANGED <<tickets_db, payments_db, transactions, request, local, clock, reveals, gp_call>>

(* ------------------------------ specification -------------------------- *)
Next ==
    \E r \in Reqs :
        \/ Arrive(r)
        \/ pp_validate(r)
        \/ pp_mp(r)
        \/ pp_save(r)
        \/ pp_ticket(r)
        \/ sc_lookup(r)
        \/ sc_mark(r)
        \/ sc_stamp(r)
        \/ gt_lookup(r)
        \/ st_fold(r)
        \/ Deliver(r)

Spec == Init /\ [][Next]_vars

(* ------------------- PrizeSystem.generate_prize alone ------------------ *)
\* random.random() is in [0, 1): 0 .. 9999 ten-thousandths
RandomMax == 9999
\* the prices generate_prize is called with here: the four tables, and one
\* price that has no table
PrizeArgs == {5, 10, 25, 50, 7}

\* one call of generate_prize on a fresh PrizeSystem
CallGeneratePrize ==
    /\ gp_call = NoCall
    /\ \E ticket_price \in PrizeArgs, random_value \in 0..RandomMax :
         gp_call' = PrizeCall(gp_call, ticket_price, random_value, clock)
    /\ UNCHANGED <<tickets_db, payments_db, transactions, request, pc, local, resp,
                   loop, clock, reveals>>

SpecPrize == Init /\ [][CallGeneratePrize]_vars

(* ------------------------------- claims -------------------------------- *)
\* the ticket prices the specification names
ConfiguredPrices == {5, 10, 25, 50}

\* request r's handler executes a statement group, or its response leaves
Stepping(r) == pc[r] # "idle" /\ pc'[r] # pc[r]

IsDone(r, op) == pc[r] = "done" /\ request[r].op = op

\* C1: of the scratch_ticket calls in flight on one ticket, exactly one is
\* answered 200: a ticket is never revealed twice (reveals counts the 200
\* answers for the ticket stored under an id), a call answered 200 is that one
\* reveal, and a call is answered 400 only when another call has revealed the
\* ticket (no reveal is missed).
C1_ExactlyOneReveal ==
    /\ \A t \in TicketIds : reveals[t] <= 1
    /\ \A r \in Reqs :
         (IsDone(r, "scratch_ticket") /\ resp[r].status_code \in {200, 400}) =>
             /\ request[r].ticket_id \in DOMAIN tickets_db
             /\ tickets_db[request[r].ticket_id].scratched
             /\ reveals[request[r].ticket_id] = 1

\* one of two scratch calls that were in flight together on the same ticket has
\* been answered 200 and the other has not run yet
C1_Witness ==
    \E r, q \in Reqs :
        /\ r # q
        /\ IsDone(r, "scratch_ticket")
        /\ resp[r].status_code = 200
        /\ request[q].op = "scratch_ticket"
        /\ request[q].ticket_id = request[r].ticket_id
        /\ pc[q] = "sc_lookup"

\* C2: a scratch_ticket call that finds its ticket unscratched does not fail and
\* is answered 200 with the prize the ticket holds; a call that finds it
\* scratched is answered 400 and changes nothing of any ticket; no step of a
\* scratch_ticket call changes a ticket's prize.
C2_FirstScratchThenAlreadyScratched ==
    [][\A r \in Reqs :
         (request[r].op = "scratch_ticket" /\ Stepping(r)) =>
            LET t == request[r].ticket_id
            IN  /\ \A u \in DOMAIN tickets_db : tickets_db'[u].prize = tickets_db[u].prize
                /\ (pc[r] = "sc_lookup" /\ t \in DOMAIN tickets_db) =>
                      IF tickets_db[t].scratched
                      THEN /\ pc'[r] = "done"
                           /\ resp'[r].status_code = 400
                           /\ tickets_db' = tickets_db
                      ELSE pc'[r] # "done"
                /\ (pc[r] \notin {"sc_lookup", "done"} /\ pc'[r] = "done") =>
                      /\ resp'[r].status_code = 200
                      /\ resp'[r].prize = tickets_db[t].prize
                      /\ tickets_db'[t].scratched
                      /\ tickets_db'[t].scratched_at # NoTime]_vars

\* a second scratch call on a revealed ticket has been answered 400
C2_Witness ==
    \E r \in Reqs :
        /\ IsDone(r, "scratch_ticket")
        /\ resp[r].status_code = 400
        /\ reveals[request[r].ticket_id] = 1

\* C3: no step changes the prize stored under an existing ticket id.
C3_PrizeFixedAtCreation ==
    [][\A t \in DOMAIN tickets_db :
          /\ t \in DOMAIN tickets_db'
          /\ tickets_db'[t].prize = tickets_db[t].prize]_vars

\* C4: a ticket id that has scratched = true keeps it in every later state.
C4_ScratchedIsTerminal ==
    [][\A t \in DOMAIN tickets_db :
          tickets_db[t].scratched =>
              (t \in DOMAIN tickets_db' /\ tickets_db'[t].scratched)]_vars

\* C5: a process_payment request whose amount is not a configured price is
\* answered with status 400.
C5_InvalidPriceIs400 ==
    \A r \in Reqs :
        (IsDone(r, "process_payment") /\ request[r].amount \notin ConfiguredPrices) =>
            resp[r].status_code = 400

\* C6: no step of a process_payment request whose amount is not a configured
\* price changes tickets_db, payments_db or the simulator's transactions, and
\* its answer is not a success.
C6_InvalidPriceNoSideEffects ==
    [][\A r \in Reqs :
         (/\ request[r].op = "process_payment"
          /\ request[r].amount \notin ConfiguredPrices
          /\ Stepping(r)) =>
            /\ UNCHANGED <<tickets_db, payments_db, transactions>>
            /\ pc'[r] = "done" => resp'[r].status_code # 200]_vars

\* a process_payment request with amount 7 has been answered
C6_Witness ==
    \E r \in Reqs :
        /\ IsDone(r, "process_payment")
        /\ request[r].amount \notin ConfiguredPrices

\* C7: the step of an approved process_payment that stores the ticket stores it
\* under an id that was not in the store: the store grows by exactly one.
C7_FreshTicketId ==
    [][\A r \in Reqs :
         (pc[r] = "pp_ticket" /\ pc'[r] = "done") =>
            /\ resp'[r].ticket_id \notin DOMAIN tickets_db
            /\ Cardinality(DOMAIN tickets_db') = Cardinality(DOMAIN tickets_db) + 1]_vars

\* C8: a process_payment request with a configured price is answered 200 with
\* the status the payment processor recorded for its payment id in both payment
\* collections; success and a ticket_id if and only if that status is approved,
\* the ticket then being stored, unscratched, under the ticket_id with this
\* payment id; otherwise ticket_id is absent and no step of the request has
\* changed tickets_db.
C8_TicketIffApproved ==
    [][\A r \in Reqs :
         (/\ request[r].op = "process_payment"
          /\ request[r].amount \in ConfiguredPrices
          /\ Stepping(r)
          /\ pc[r] # "done") =>
            IF pc'[r] = "done"
            THEN LET a == resp'[r]
                 IN  /\ a.status_code = 200
                     /\ a.payment_id \in DOMAIN transactions'
                     /\ a.payment_id \in DOMAIN payments_db'
                     /\ transactions'[a.payment_id].status = a.status
                     /\ payments_db'[a.payment_id].status = a.status
                     /\ a.success = (a.status = "approved")
                     /\ IF a.status = "approved"
                        THEN /\ a.ticket_id \in DOMAIN tickets_db'
                             /\ tickets_db'[a.ticket_id].payment_id = a.payment_id
                             /\ tickets_db'[a.ticket_id].price = request[r].amount
                             /\ ~tickets_db'[a.ticket_id].scratched
                        ELSE /\ a.ticket_id = None
                             /\ tickets_db' = tickets_db
            ELSE tickets_db' = tickets_db]_vars

\* a pending payment has been answered: no success, no ticket_id, recorded
C8_Witness ==
    \E r \in Reqs :
        /\ IsDone(r, "process_payment")
        /\ resp[r].status_code = 200
        /\ ~resp[r].success
        /\ resp[r].status = "pending"
        /\ resp[r].payment_id \in DOMAIN payments_db

\* C9: every stored ticket's payment_id is the id of a ledger transaction with
\* status approved, and no two stored tickets have the same payment_id.
C9_TicketFundedByOneApprovedPayment ==
    /\ \A t \in DOMAIN tickets_db :
          /\ tickets_db[t].payment_id \in DOMAIN transactions
          /\ transactions[tickets_db[t].payment_id].status = "approved"
    /\ \A t, u \in DOMAIN tickets_db :
          t # u => tickets_db[t].payment_id # tickets_db[u].payment_id

\* C10: a ticket that get_ticket returns has scratched_at if and only if it is
\* scratched, and in every state in which get_ticket or get_statistics is able
\* to run its read, every stored ticket has scratched_at if and only if it is
\* scratched.
C10_NoTornScratch ==
    \A r \in Reqs :
        /\ (IsDone(r, "get_ticket") /\ resp[r].status_code = 200) =>
              (resp[r].ticket.scratched <=> resp[r].ticket.scratched_at # NoTime)
        /\ (pc[r] \in {"gt_lookup", "st_fold"} /\ loop \in {Idle, r}) =>
              \A t \in DOMAIN tickets_db :
                  tickets_db[t].scratched <=> tickets_db[t].scratched_at # NoTime

\* a scratch_ticket call is between its two writes (scratched set, scratched_at
\* not yet) while a get_ticket call on the same ticket is waiting to run
C10_Witness ==
    \E r, q \in Reqs :
        /\ pc[q] = "sc_stamp"
        /\ tickets_db[request[q].ticket_id].scratched
        /\ tickets_db[request[q].ticket_id].scratched_at = NoTime
        /\ pc[r] = "gt_lookup"
        /\ request[r].ticket_id = request[q].ticket_id

\* the sum of the price (of the prize amount) of the tickets stored under ids
RECURSIVE PriceTotal(_)
PriceTotal(ids) ==
    IF ids = {} THEN 0
    ELSE LET t == CHOOSE u \in ids : TRUE
         IN  tickets_db[t].price + PriceTotal(ids \ {t})

RECURSIVE PrizeTotal(_)
PrizeTotal(ids) ==
    IF ids = {} THEN 0
    ELSE LET t == CHOOSE u \in ids : TRUE
         IN  tickets_db[t].prize.amount + PrizeTotal(ids \ {t})

ScratchedIds == { t \in DOMAIN tickets_db : tickets_db[t].scratched }

\* C11: the answer of get_statistics has total_payments (the spec's
\* total_collected) equal to the sum of price over all stored tickets,
\* total_prizes (total_paid_out) equal to the sum of prize.amount over the
\* scratched tickets only, winners_count equal to the number of scratched
\* tickets with prize.amount > 0, and total_tickets the number of tickets.
C11_StatisticsTotals ==
    \A r \in Reqs :
        IsDone(r, "get_statistics") =>
            /\ resp[r].status_code = 200
            /\ resp[r].total_tickets = Cardinality(DOMAIN tickets_db)
            /\ resp[r].total_payments = PriceTotal(DOMAIN tickets_db)
            /\ resp[r].total_prizes = PrizeTotal(ScratchedIds)
            /\ resp[r].winners_count =
                  Cardinality({ t \in ScratchedIds : tickets_db[t].prize.amount > 0 })

\* get_statistics has answered with a scratched winning ticket in the store
C11_Witness ==
    \E r \in Reqs :
        /\ IsDone(r, "get_statistics")
        /\ resp[r].winners_count = 1
        /\ resp[r].total_prizes = 250
        /\ resp[r].total_payments = 5

\* C12: the answer of get_statistics has win_rate = winners_count / total_tickets
\* and house_edge = (total_payments - total_prizes) / total_payments, and both
\* are 0, with no division by zero, when the store holds no ticket (no money
\* has been collected).  q = a / b is stated as q.den # 0 and q.num * b = a * q.den.
C12_RatesGuarded ==
    \A r \in Reqs :
        IsDone(r, "get_statistics") =>
            LET a == resp[r]
            IN  /\ a.win_rate.den # 0
                /\ a.house_edge.den # 0
                /\ IF a.total_tickets = 0
                   THEN a.win_rate.num = 0
                   ELSE a.win_rate.num * a.total_tickets = a.winners_count * a.win_rate.den
                /\ IF a.total_payments = 0
                   THEN a.house_edge.num = 0
                   ELSE a.house_edge.num * a.total_payments
                          = (a.total_payments - a.total_prizes) * a.house_edge.den

\* get_statistics has answered on an empty store
C12_Witness ==
    \E r \in Reqs :
        /\ IsDone(r, "get_statistics")
        /\ resp[r].total_tickets = 0
        /\ resp[r].win_rate.num = 0
        /\ resp[r].house_edge.num = 0

\* C13: a scratch_ticket call whose id is not in the ticket store is answered
\* 404 by its first step, and that step changes no ticket and neither payment
\* collection.
C13_UnknownTicketNotFound ==
    [][\A r \in Reqs :
         (/\ request[r].op = "scratch_ticket"
          /\ pc[r] = "sc_lookup"
          /\ Stepping(r)
          /\ request[r].ticket_id \notin DOMAIN tickets_db) =>
            /\ pc'[r] = "done"
            /\ resp'[r].status_code = 404
            /\ UNCHANGED <<tickets_db, payments_db, transactions>>]_vars

\* a scratch_ticket call on an id the store does not hold has been answered
C13_Witness ==
    \E r \in Reqs :
        /\ IsDone(r, "scratch_ticket")
        /\ request[r].ticket_id \notin DOMAIN tickets_db
        /\ resp[r].status_code = 404

\* C14: the payment-processor call of a process_payment request adds exactly
\* one transaction under an id the ledger did not hold, no step modifies or
\* overwrites a transaction the ledger holds, and every transaction has
\* date_approved if and only if its status is approved.
C14_LedgerAppendOnly ==
    [][/\ \A p \in DOMAIN transactions :
             /\ p \in DOMAIN transactions'
             /\ transactions'[p] = transactions[p]
       /\ (\E r \in Reqs : pc[r] = "pp_mp" /\ pc'[r] = "pp_save") =>
             Cardinality(DOMAIN transactions') = Cardinality(DOMAIN transactions) + 1
       /\ \A p \in DOMAIN transactions' :
             (transactions'[p].date_approved # NoTime)
                <=> (transactions'[p].status = "approved")]_vars

\* the probability mass of the first i entries of a table
RECURSIVE CumulativeMass(_, _)
CumulativeMass(table, i) ==
    IF i = 0 THEN 0 ELSE CumulativeMass(table, i - 1) + table[i].probability

CalledWithConfiguredPrice ==
    gp_call # NoCall /\ gp_call.ticket_price \in ConfiguredPrices

C17_ProbabilitiesSumToOne ==
    /\ \A p \in ConfiguredPrices :
          /\ p \in DOMAIN prize_pools
          /\ CumulativeMass(prize_pools[p], Len(prize_pools[p])) = 10000
    /\ CalledWithConfiguredPrice =>
          gp_call.random_value
             <= CumulativeMass(prize_pools[gp_call.ticket_price],
                               Len(prize_pools[gp_call.ticket_price]))

\* the largest draw, on the price-5 table, returns the table's last entry
C17_Witness ==
    /\ gp_call.ticket_price = 5
    /\ gp_call.random_value = RandomMax
    /\ gp_call.result.amount = 250

\* the tier the specification gives an amount
TierOf(amount) ==
    CASE amount >= 1000 -> "jackpot"
      [] amount >= 100 /\ amount < 1000 -> "major"
      [] amount >= 10 /\ amount < 100 -> "minor"
      [] amount > 0 /\ amount < 10 -> "consolation"
      [] OTHER -> "none"

\* C18: what a call of generate_prize returns has is_winner = (amount > 0) and
\* prize_tier = the tier of its amount.
C18_TierAndWinnerFollowAmount ==
    gp_call # NoCall =>
        /\ gp_call.result.is_winner = (gp_call.result.amount > 0)
        /\ gp_call.result.prize_tier = TierOf(gp_call.result.amount)

\* a call has returned the amount 1000, at the jackpot threshold
C18_Witness ==
    /\ gp_call.result.amount = 1000
    /\ gp_call.result.prize_tier = "jackpot"
    /\ gp_call.result.is_winner

\* C19: from one state to the next, the total_tickets, total_payments
\* (total_collected) and total_prizes (total_paid_out) that get_statistics
\* reports of the store do not decrease.
C19_AggregatesMonotonic ==
    [][/\ Statistics(tickets_db').total_tickets >= Statistics(tickets_db).total_tickets
       /\ Statistics(tickets_db').total_payments >= Statistics(tickets_db).total_payments
       /\ Statistics(tickets_db').total_prizes >= Statistics(tickets_db).total_prizes]_vars

\* no handler is between its first statement and its return: the states the
\* requests see, the handlers being atomic on the event loop
Quiescent ==
    \A r \in Reqs : pc[r] \in {"idle", "done"} \cup { Entry(q.op) : q \in Requests }

\* request r's handler returns a successful purchase in this step
ApprovedPurchase(r) ==
    /\ request[r].op = "process_payment"
    /\ pc[r] \notin {"idle", "done"}
    /\ pc'[r] = "done"
    /\ resp'[r].status_code = 200
    /\ resp'[r].success

\* C20: between handlers, payments_db and the simulator's transactions hold
\* the same payment ids with the same status per id; generate_prize is called
\* exactly once in the step that completes an approved purchase and in no
\* other step, with that purchase's amount, which is a configured price, and
\* its result is the prize of the ticket stored.
C20_PaymentsAgreeAndOnePrizeCall ==
    [][/\ Quiescent' =>
             /\ DOMAIN payments_db' = DOMAIN transactions'
             /\ \A p \in DOMAIN payments_db' :
                   payments_db'[p].status = transactions'[p].status
       /\ gp_call'.n = gp_call.n + Cardinality({ r \in Reqs : ApprovedPurchase(r) })
       /\ \A r \in Reqs :
             ApprovedPurchase(r) =>
                /\ gp_call'.ticket_price = request[r].amount
                /\ gp_call'.ticket_price \in ConfiguredPrices
                /\ PoolFor(gp_call'.ticket_price) = prize_pools[request[r].amount]
                /\ tickets_db'[resp'[r].ticket_id].prize = gp_call'.result]_vars

\* an approved purchase has been answered: one prize call, with its price, and
\* both payment collections hold its payment as approved
C20_Witness ==
    \E r \in Reqs :
        /\ IsDone(r, "process_payment")
        /\ resp[r].status_code = 200
        /\ resp[r].success
        /\ gp_call.n = 1
        /\ gp_call.ticket_price = request[r].amount
        /\ payments_db[resp[r].payment_id].status = "approved"
        /\ transactions[resp[r].payment_id].status = "approved"

====
